---- MODULE Spec2Model ----
(***************************************************************************)
(* Mini-Git (core.cpp, manager.cpp): a snapshot store on the filesystem.   *)
(*                                                                         *)
(* The state is the filesystem below the current directory:                *)
(*   wt       the regular files of the working tree (relative path ->      *)
(*            bytes), reserved paths included;                             *)
(*   staging  the regular files below .git/staging_area;                   *)
(*   commits  the directories below .git/commits: for each identifier the  *)
(*            lines of commitInfo.txt and the regular files below Data;    *)
(*   HEAD     the text of .git/HEAD, or NoFile before the first init;      *)
(*   last     the command that ran last, its arguments, what it returned   *)
(*            or printed and the filesystem it started from (the caller's  *)
(*            view);                                                       *)
(*   nCommits the number of commit directories written so far (only to     *)
(*            bound the exploration);                                      *)
(*   since    whether init has run and the identifiers of the commits that *)
(*            commit and revert have appended since it last ran, newest    *)
(*            first (the caller's view, no code reads it);                 *)
(*   faulty   whether the filesystem may refuse to create, copy or write   *)
(*            (a full disk, say).                                          *)
(*                                                                         *)
(* Every command of main() but log is one action: the process runs the     *)
(* command to completion; log is a loop that need not end, so each pass of *)
(* it is a step.  Exit is the process ending, after which the user may     *)
(* edit the working tree or start the next command.  A missing staging     *)
(* directory is read as an empty one by every reader (the fs::exists       *)
(* guards) and created by every writer, so it is not a separate piece of   *)
(* state.  The timestamp line of commitInfo.txt is written with one fixed  *)
(* minute.                                                                 *)
(*                                                                         *)
(* Specifications: Spec (all commands, the working tree edited between     *)
(* them), Naming (add with several names), History (longer chains over a   *)
(* fixed working tree), Damaged (History with commit directories deleted   *)
(* from outside) and Faulty (History on a filesystem that may refuse an    *)
(* operation of createCommit).                                             *)
(***************************************************************************)
EXTENDS Integers, Sequences, FiniteSets, TLC

VARIABLES wt, staging, commits, HEAD, last, nCommits, since, faulty

vars == <<wt, staging, commits, HEAD, last, nCommits, since, faulty>>

(***************************************************************************)
(* Bounds of the exploration.                                              *)
(***************************************************************************)
\* commit directories written in one behaviour
MaxCommits == 2

\* the identifiers gen_random(8) can return in this exploration; nothing
\* keeps it from returning one that is already in use
IdSeq == <<"Aaaaaaa1", "Bbbbbbb2", "Cccccccc", "Dddddddd">>
CommitIds == {IdSeq[i] : i \in DOMAIN IdSeq}
IdRank(c) == CHOOSE i \in DOMAIN IdSeq : IdSeq[i] = c
\* the files the user edits, and the byte contents they get
UserPaths == {"a.txt", "src/b.txt"}
Contents == {<<1>>, <<2>>}
ContentsOf(p) == IF p = "a.txt" THEN Contents ELSE {<<1>>}
\* files of the working tree the user never edits here: the executable and
\* a dot file whose name begins with ".git"
FixedFiles == [p \in {"mygit", ".gitignore"} |-> <<7>>]
\* the names given to "add <files...>": the user's files, the directory src
\* and two names that do not exist, one of them beginning with ".git"
NamedPaths == UserPaths \cup {"src", "nofile", ".github"}
\* the one message given to commit -m
Messages == {"m"}
\* what get_time() returns
Timestamp == "2026/01/01 00:00"

NoFile == "<no file>"

(***************************************************************************)
(* Strings and trees.                                                      *)
(***************************************************************************)
EmptyTree == [p \in {} |-> <<>>]

\* b laid over a: a copy loop that removes an existing destination first
Overlay(a, b) ==
    [p \in DOMAIN a \cup DOMAIN b |-> IF p \in DOMAIN b THEN b[p] ELSE a[p]]

Without(t, p) == [q \in DOMAIN t \ {p} |-> t[q]]

CharAt(s, i) == SubSeq(s, i, i)

\* s.find(pre) == 0
StartsWith(s, pre) == Len(s) >= Len(pre) /\ SubSeq(s, 1, Len(pre)) = pre

SlashPos(s) == {i \in 1..Len(s) : CharAt(s, i) = "/"}

SetMax(S) == CHOOSE x \in S : \A y \in S : y <= x

\* fs::path::filename()
Filename(s) ==
    IF SlashPos(s) = {} THEN s ELSE SubSeq(s, SetMax(SlashPos(s)) + 1, Len(s))

\* the directories above s, as relative paths
DirsAbove(s) == {SubSeq(s, 1, i - 1) : i \in SlashPos(s)}

IsSpace(c) == c \in {" ", "\n", "\r", "\t"}

RECURSIVE DropLeft(_)
DropLeft(s) ==
    IF Len(s) > 0 /\ IsSpace(CharAt(s, 1)) THEN DropLeft(SubSeq(s, 2, Len(s))) ELSE s

RECURSIVE DropRight(_)
DropRight(s) ==
    IF Len(s) > 0 /\ IsSpace(CharAt(s, Len(s)))
    THEN DropRight(SubSeq(s, 1, Len(s) - 1)) ELSE s

trim(s) == DropRight(DropLeft(s))

RECURSIVE NoSpaces(_)
NoSpaces(s) ==
    IF Len(s) = 0 THEN s
    ELSE IF IsSpace(CharAt(s, 1)) THEN NoSpaces(SubSeq(s, 2, Len(s)))
    ELSE CharAt(s, 1) \o NoSpaces(SubSeq(s, 2, Len(s)))

(***************************************************************************)
(* manager.cpp helpers.                                                    *)
(***************************************************************************)
\* the bytes compared, once both files exist
SameBytes(x, y) == Len(x) = Len(y) /\ \A i \in 1..Len(x) : x[i] = y[i]

\* filesAreSame(a, b) with a = ta/pa and b = tb/pb
filesAreSame(ta, pa, tb, pb) ==
    /\ pa \in DOMAIN ta
    /\ pb \in DOMAIN tb
    /\ SameBytes(ta[pa], tb[pb])

isIgnored(rel) ==
    \/ rel = ""
    \/ StartsWith(rel, ".git")
    \/ StartsWith(rel, ".vscode")
    \/ Filename(rel) \in {"mygit.exe", "mygit"}

\* the texts .git/HEAD can hold, with trim and the isspace filter worked out
\* once for each
HeadTexts == CommitIds \cup {"NULL"}

Trimmed == [s \in HeadTexts |-> trim(s)]

Unspaced == [s \in HeadTexts |-> NoSpaces(s)]

getHEAD ==
    IF HEAD = NoFile THEN "NULL"
    ELSE IF Unspaced[HEAD] = "" THEN "NULL" ELSE Unspaced[HEAD]

\* the lines of a commitInfo.txt that does not exist
NoInfo == <<NoFile>>

\* fs::exists(.git/commits/<id>/commitInfo.txt)
infoExists(id) == id \in DOMAIN commits /\ commits[id].info # NoInfo

\* trim(s), from the table where s is a text HEAD can hold
trimOf(s) == IF s \in DOMAIN Trimmed THEN Trimmed[s] ELSE trim(s)

\* the files below committedData ("" when head is NULL: nothing exists there)
committedData(head) ==
    IF head # "NULL" /\ head \in DOMAIN commits THEN commits[head].data ELSE EmptyTree

\* the regular files a recursive walk of the root visits: an ignored entry is
\* skipped and, being a directory, not entered
Visited ==
    {p \in UserPaths \cup DOMAIN FixedFiles :
        ~isIgnored(p) /\ \A d \in DirsAbove(p) : ~isIgnored(d)}

Walked == DOMAIN wt \cap Visited

NoOut == [staged |-> {}, modified |-> {}, untracked |-> {}]

NoBefore == [wt |-> EmptyTree, staging |-> EmptyTree, commits |-> EmptyTree, HEAD |-> NoFile]

\* no process is running
Idle == last.op = "idle"

\* the filesystem a command starts from
Before == [wt |-> wt, staging |-> staging, commits |-> commits, HEAD |-> HEAD]

\* the record of a command: what ran, with which arguments, whether it
\* returned true, whether the process ended in exit(1), the identifier
\* gen_random returned, the names warned about, the sets printed, (for
\* add <files...>, status, commit, revert and log) the filesystem it
\* started from and, for log, currID and the identifiers of the entries
\* printed so far with the parity of the passes made, and for commit and revert the step of createCommit that
\* the filesystem refused ("" when none).  While no process runs, and in
\* the record of a commit, afterAdd tells that the command before was
\* "add ." and the working tree was not edited since
NoRun ==
    [op |-> "idle", ok |-> TRUE, exited |-> FALSE, ref |-> "", files |-> <<>>,
     id |-> "", warned |-> {}, out |-> NoOut, before |-> NoBefore,
     curr |-> "", printed |-> <<>>, odd |-> FALSE, fault |-> "",
     afterAdd |-> FALSE]

Init ==
    /\ wt \in {Overlay(FixedFiles, t) :
                 t \in {u \in UNION {[S -> Contents] : S \in SUBSET UserPaths} :
                           \A p \in DOMAIN u : u[p] \in ContentsOf(p)}}
    /\ staging = EmptyTree
    /\ commits = EmptyTree
    /\ HEAD = NoFile
    /\ last = NoRun
    /\ nCommits = 0
    /\ since = [inited |-> FALSE, ids |-> <<>>]
    /\ faulty = FALSE

(***************************************************************************)
(* The user edits the working tree between two commands.                   *)
(***************************************************************************)
WriteFile ==
    /\ Idle
    /\ \E p \in UserPaths : \E c \in ContentsOf(p) :
          /\ wt' = Overlay(wt, [q \in {p} |-> c])
          /\ wt' # wt
    /\ last' = NoRun
    /\ UNCHANGED <<staging, commits, HEAD, nCommits, since, faulty>>

DeleteFile ==
    /\ Idle
    /\ \E p \in UserPaths \cap DOMAIN wt : wt' = Without(wt, p)
    /\ last' = NoRun
    /\ UNCHANGED <<staging, commits, HEAD, nCommits, since, faulty>>

\* the loop of printCommitList has another pass to make
LogRunning ==
    /\ last.op = "log"
    /\ last.curr \notin {"", "NULL"}
    /\ infoExists(last.curr)

\* main returns (or exit(1) has ended the process)
Exit ==
    /\ ~Idle
    /\ ~LogRunning
    /\ last' = [NoRun EXCEPT !.afterAdd = (last.op = "add")]
    /\ UNCHANGED <<wt, staging, commits, HEAD, nCommits, since, faulty>>

(***************************************************************************)
(* manager.cpp: init, add, status.                                         *)
(***************************************************************************)
\* mutant: an existing HEAD file is left as it is
gitInit_KeepsHead ==
    /\ Idle
    /\ HEAD' = IF HEAD = NoFile THEN "NULL" ELSE HEAD
    /\ last' = [NoRun EXCEPT !.op = "init", !.before = Before]
    /\ since' = [inited |-> TRUE, ids |-> <<>>]
    /\ UNCHANGED <<wt, staging, commits, nCommits, faulty>>

gitInit ==
    /\ Idle
    /\ HEAD' = "NULL"
    /\ last' = [NoRun EXCEPT !.op = "init", !.before = Before]
    /\ since' = [inited |-> TRUE, ids |-> <<>>]
    /\ UNCHANGED <<wt, staging, commits, nCommits, faulty>>

\* mutant: the unchanged file is skipped but its staged copy is left behind
addAllFile_NoPrune(stg, rel, cd) ==
    IF rel \in DOMAIN cd /\ filesAreSame(wt, rel, cd, rel)
    THEN stg
    ELSE Overlay(stg, [q \in {rel} |-> wt[rel]])

\* one pass of the loop of gitAdd() over the regular file rel
addAllFile(stg, rel, cd) ==
    IF rel \in DOMAIN cd /\ filesAreSame(wt, rel, cd, rel)
    THEN Without(stg, rel)
    ELSE Overlay(stg, [q \in {rel} |-> wt[rel]])

\* gitAdd(): each pass touches staging/rel only, so the order of the walk
\* does not matter
gitAddAll(stg, cd) ==
    [p \in (DOMAIN stg \cup Walked) \ {q \in Walked : q \notin DOMAIN addAllFile(stg, q, cd)}
        |-> IF p \in Walked THEN addAllFile(stg, p, cd)[p] ELSE stg[p]]

gitAdd ==
    /\ Idle
    /\ staging' = gitAddAll(staging, committedData(getHEAD))
    /\ last' = [NoRun EXCEPT !.op = "add"]
    /\ UNCHANGED <<wt, commits, HEAD, nCommits, since, faulty>>

\* fs::exists(src) && fs::is_regular_file(src)
IsRegularFile(name) == name \in DOMAIN wt

\* the warning branch of gitAdd(files, n)
Warns(name) == ~isIgnored(name) /\ ~IsRegularFile(name)

\* one pass of the loop of gitAdd(files, n) over files[i]
addNamedFile(stg, name, cd) ==
    IF isIgnored(name) THEN stg
    ELSE IF ~IsRegularFile(name) THEN stg
    ELSE IF name \in DOMAIN cd /\ filesAreSame(wt, name, cd, name) THEN stg
    ELSE Overlay(stg, [q \in {name} |-> wt[name]])

RECURSIVE gitAddNamed(_, _, _)
gitAddNamed(stg, files, cd) ==
    IF files = <<>> THEN stg
    ELSE gitAddNamed(addNamedFile(stg, Head(files), cd), Tail(files), cd)

\* "add <name>" with one name
OneName == {<<name>> : name \in NamedPaths}

\* gitAdd(files, n) with the list drawn from lists
gitAddFiles(lists) ==
    \E files \in lists :
        /\ Idle
        /\ staging' = gitAddNamed(staging, files, committedData(getHEAD))
        /\ last' = [NoRun EXCEPT !.op = "addfiles", !.files = files, !.before = Before,
                        !.warned = {files[i] : i \in {j \in 1..Len(files) : Warns(files[j])}}]
        /\ UNCHANGED <<wt, commits, HEAD, nCommits, since, faulty>>

\* the three vectors gitStatus() prints
statusStaged == DOMAIN staging

\* mutant: the inStaging test is dropped from the modified branch
statusModified_IgnoresStaging ==
    LET cd == committedData(getHEAD)
    IN {rel \in Walked : rel \in DOMAIN cd /\ ~filesAreSame(wt, rel, cd, rel)}

statusModified ==
    LET cd == committedData(getHEAD)
    IN {rel \in Walked :
          /\ rel \in DOMAIN cd /\ rel \notin DOMAIN staging
          /\ ~filesAreSame(wt, rel, cd, rel)}

statusUntracked ==
    LET cd == committedData(getHEAD)
    IN {rel \in Walked : rel \notin DOMAIN cd /\ rel \notin DOMAIN staging}

\* mutant: status tidies the staging directory after printing
gitStatus_Clears ==
    /\ Idle
    /\ last' = [NoRun EXCEPT !.op = "status", !.before = Before,
                    !.out = [staged |-> statusStaged, modified |-> statusModified,
                             untracked |-> statusUntracked]]
    /\ staging' = EmptyTree
    /\ UNCHANGED <<wt, commits, HEAD, nCommits, since, faulty>>

gitStatus ==
    /\ Idle
    /\ last' = [NoRun EXCEPT !.op = "status", !.before = Before,
                    !.out = [staged |-> statusStaged, modified |-> statusModified,
                             untracked |-> statusUntracked]]
    /\ UNCHANGED <<wt, staging, commits, HEAD, nCommits, since, faulty>>

(***************************************************************************)
(* core.cpp: commit creation, the chain, revert.                           *)
(***************************************************************************)
\* the identifiers gen_random(8) may return: one already in use, or a new
\* one.  The new ones are interchangeable (no code looks inside an
\* identifier), so the first unused one stands for all of them.
Unused == CommitIds \ DOMAIN commits

FirstUnused == {c \in Unused : \A d \in Unused : IdRank(c) <= IdRank(d)}

gen_random == DOMAIN commits \cup FirstUnused

\* the four lines createCommit writes to commitInfo.txt
commitInfo(commitID, parentCommitID, commitMsg) ==
    << "1." \o commitID,
       "2." \o (IF parentCommitID = "" THEN "NULL" ELSE parentCommitID),
       "3." \o commitMsg,
       "4." \o Timestamp >>

\* line.substr(2)
Substr2(line) == SubSeq(line, 3, Len(line))

\* the last line of a commitInfo.txt that begins with the digit, without its
\* two-character prefix; dflt when there is none
RECURSIVE Field(_, _, _)
Field(lines, digit, dflt) ==
    IF lines = <<>> THEN dflt
    ELSE Field(Tail(lines), digit,
               IF Len(Head(lines)) > 0 /\ CharAt(Head(lines), 1) = digit
               THEN Substr2(Head(lines)) ELSE dflt)

\* mutant: the inherit loop is missing
snapshot_NoInherit(base, parentData, stg) == Overlay(base, stg)

\* mutant: the two loops run in the other order, so the parent's file wins
snapshot_ParentWins(base, parentData, stg) == Overlay(Overlay(base, stg), parentData)

\* the files below Data once both copy loops of createCommit have run over a
\* directory that held base: the parent's files first, the staged ones last
snapshot(base, parentData, stg) == Overlay(Overlay(base, parentData), stg)

\* commitNode::createCommit: the outcomes of writing commits/<commitID>.
\* The directory may exist already (create_directories does not mind): its
\* files stay unless a copy replaces them.  When the parent is the commit
\* itself the first inherited file is removed and then copied from its own,
\* now missing, path: the filesystem error ends the process in exit(1);
\* which file the directory walk yields first is not specified.
createCommit(commitID, parentCommitID, commitMsg) ==
    LET base == IF commitID \in DOMAIN commits THEN commits[commitID].data ELSE EmptyTree
        inherits == parentCommitID # "" /\ parentCommitID \in DOMAIN commits
        parentData == IF inherits THEN commits[parentCommitID].data ELSE EmptyTree
        node == [info |-> commitInfo(commitID, parentCommitID, commitMsg),
                 data |-> snapshot(base, parentData, staging)]
    IN  IF inherits /\ parentCommitID = commitID /\ DOMAIN parentData # {}
        THEN {[done |-> FALSE, id |-> commitID, fault |-> "copy",
               store |-> [commits EXCEPT ![commitID].data = Without(@, p)]] :
                  p \in DOMAIN parentData}
        ELSE {[done |-> TRUE, id |-> commitID, fault |-> "",
               store |-> [c \in DOMAIN commits \cup {commitID} |->
                             IF c = commitID THEN node ELSE commits[c]]]}

\* the files below a directory that held base when a copy loop over the
\* files of src is cut short by a filesystem error: some files of src are
\* copied, the one the error came at is as it was or already removed
CutShort(base, src) ==
    LET part(S) == Overlay(base, [p \in S |-> src[p]])
        Some == (SUBSET DOMAIN src) \ {DOMAIN src}
    IN  {part(S) : S \in Some}
          \cup UNION {{Without(part(S), q) : q \in DOMAIN src \ S} : S \in Some}

\* commitNode::createCommit on a filesystem that refuses an operation: the
\* outcomes that differ from those of createCommit.  create_directories,
\* remove and copy_file throw, and so does the is_open test when the stream
\* cannot be opened: exit(1); the writes to the open stream and its close
\* are not tested: createCommit returns with the lines written so far.
createCommitFaults(commitID, parentCommitID, commitMsg) ==
    LET had == commitID \in DOMAIN commits
        base == IF had THEN commits[commitID].data ELSE EmptyTree
        oldInfo == IF had THEN commits[commitID].info ELSE NoInfo
        inherits == parentCommitID # "" /\ parentCommitID \in DOMAIN commits
        parentData == IF inherits THEN commits[parentCommitID].data ELSE EmptyTree
        lines == commitInfo(commitID, parentCommitID, commitMsg)
        put(info, data) == [c \in DOMAIN commits \cup {commitID} |->
                               IF c = commitID THEN [info |-> info, data |-> data]
                               ELSE commits[c]]
        out(done, fault, store) ==
            [done |-> done, id |-> commitID, fault |-> fault, store |-> store]
    IN  IF inherits /\ parentCommitID = commitID /\ DOMAIN parentData # {}
        THEN {}
        ELSE {out(FALSE, "dir", commits), out(FALSE, "dir", put(oldInfo, base))}
               \cup {out(FALSE, "copy", put(oldInfo, d)) : d \in CutShort(base, parentData)}
               \cup {out(FALSE, "copy", put(oldInfo, d)) :
                        d \in CutShort(Overlay(base, parentData), staging)}
               \cup {out(FALSE, "open", put(oldInfo, snapshot(base, parentData, staging)))}
               \cup {out(TRUE, "write",
                         put(SubSeq(lines, 1, n), snapshot(base, parentData, staging))) :
                        n \in 0..(Len(lines) - 1)}

\* commitNodeList::addOnTail: the outcomes of appending a commit; HEAD is
\* rewritten only when createCommit returned
addOnTail(msg) ==
    LET parentID == IF HEAD = NoFile THEN ""
                    ELSE IF Trimmed[HEAD] = "NULL" THEN "" ELSE Trimmed[HEAD]
    IN  UNION {createCommit(newCommitID, parentID, msg)
                 \cup (IF faulty THEN createCommitFaults(newCommitID, parentID, msg) ELSE {}) :
                    newCommitID \in gen_random}

\* the caller's record once addOnTail has ended in outcome o
Appending(o) == IF o.done THEN [since EXCEPT !.ids = <<o.id>> \o @] ELSE since

\* mutant: the staging directory is left as it is
clearStagingArea_Keeps == staging

clearStagingArea == EmptyTree

\* mutant: the scan always finds a file
stagingIsEmpty_Never == FALSE

\* the scan of gitCommit for a regular file below the staging directory
stagingIsEmpty == DOMAIN staging = {}

\* gitCommit, in an exploration of at most max commit directories
gitCommitUpTo(max) ==
    /\ Idle
    /\ \E msg \in Messages :
          IF stagingIsEmpty
          THEN /\ last' = [NoRun EXCEPT !.op = "commit", !.ok = FALSE, !.before = Before,
                               !.afterAdd = last.afterAdd]
               /\ UNCHANGED <<wt, staging, commits, HEAD, nCommits, since, faulty>>
          ELSE /\ nCommits < max
               /\ \E o \in addOnTail(msg) :
                    /\ commits' = o.store
                    /\ HEAD' = IF o.done THEN o.id ELSE HEAD
                    /\ staging' = IF o.done THEN clearStagingArea ELSE staging
                    /\ last' = [NoRun EXCEPT !.op = "commit", !.ok = o.done,
                                    !.exited = ~o.done, !.id = o.id, !.before = Before,
                                    !.fault = o.fault, !.afterAdd = last.afterAdd]
                    /\ since' = Appending(o)
               /\ nCommits' = nCommits + 1
               /\ UNCHANGED <<wt, faulty>>

gitCommit == gitCommitUpTo(MaxCommits)

\* mutant: a reference that names no commit falls back to the head
targetOf_FallsBackToHead(commitHash) ==
    IF commitHash \in DOMAIN commits THEN commitHash
    ELSE IF HEAD = NoFile \/ Trimmed[HEAD] = "NULL" \/ Trimmed[HEAD] = "" THEN ""
    ELSE Trimmed[HEAD]

\* the commit a reference names in revertCommit, "" when it returns false
\* before looking for one
targetOf(commitHash) ==
    IF commitHash = "HEAD"
    THEN IF HEAD = NoFile \/ Trimmed[HEAD] = "NULL" \/ Trimmed[HEAD] = "" THEN ""
         ELSE Trimmed[HEAD]
    ELSE commitHash

\* the references given to revert: the identifiers in use, one that is not
\* in use, the symbolic head and the text of the null sentinel
Refs == DOMAIN commits \cup FirstUnused \cup {"HEAD", "NULL"}

\* mutant: a successful revert clears the staging area as commit does
gitRevertUpTo_ClearsStaging(max) ==
    /\ Idle
    /\ \E commitHash \in Refs :
          LET targetHash == targetOf(commitHash)
          IN  IF targetHash = "" \/ ~infoExists(targetHash)
              THEN /\ last' = [NoRun EXCEPT !.op = "revert", !.ok = FALSE,
                                   !.ref = commitHash, !.before = Before]
                   /\ UNCHANGED <<wt, staging, commits, HEAD, nCommits, since, faulty>>
              ELSE /\ nCommits < max
                   /\ \E o \in addOnTail(Field(commits[targetHash].info, "3", "")
                                          \o " (Revert of " \o targetHash \o ")") :
                        /\ commits' = o.store
                        /\ HEAD' = IF o.done THEN o.id ELSE HEAD
                        /\ staging' = IF o.done THEN clearStagingArea ELSE staging
                        /\ last' = [NoRun EXCEPT !.op = "revert", !.ok = o.done,
                                        !.exited = ~o.done, !.ref = commitHash,
                                        !.id = o.id, !.before = Before, !.fault = o.fault]
                        /\ since' = Appending(o)
                   /\ nCommits' = nCommits + 1
                   /\ UNCHANGED <<wt, faulty>>

\* commitNodeList::revertCommit through gitClass::gitRevert, in an
\* exploration of at most max commit directories
gitRevertUpTo(max) ==
    /\ Idle
    /\ \E commitHash \in Refs :
          LET targetHash == targetOf(commitHash)
          IN  IF targetHash = "" \/ ~infoExists(targetHash)
              THEN /\ last' = [NoRun EXCEPT !.op = "revert", !.ok = FALSE,
                                   !.ref = commitHash, !.before = Before]
                   /\ UNCHANGED <<wt, staging, commits, HEAD, nCommits, since, faulty>>
              ELSE /\ nCommits < max
                   /\ \E o \in addOnTail(Field(commits[targetHash].info, "3", "")
                                          \o " (Revert of " \o targetHash \o ")") :
                        /\ commits' = o.store
                        /\ HEAD' = IF o.done THEN o.id ELSE HEAD
                        /\ last' = [NoRun EXCEPT !.op = "revert", !.ok = o.done,
                                        !.exited = ~o.done, !.ref = commitHash,
                                        !.id = o.id, !.before = Before, !.fault = o.fault]
                        /\ since' = Appending(o)
                   /\ nCommits' = nCommits + 1
                   /\ UNCHANGED <<wt, staging, faulty>>

gitRevert == gitRevertUpTo(MaxCommits)

(***************************************************************************)
(* core.cpp: log.  printCommitList is a loop that ends only when currID is *)
(* empty, NULL or names no commitInfo.txt, so it is modelled pass by pass: *)
(* gitLog reads HEAD, printCommit is one pass of the while loop.           *)
(***************************************************************************)
gitLog ==
    /\ Idle
    /\ last' = [NoRun EXCEPT !.op = "log", !.before = Before,
                    !.curr = IF HEAD = NoFile THEN "" ELSE trimOf(HEAD)]
    /\ UNCHANGED <<wt, staging, commits, HEAD, nCommits, since, faulty>>

\* the entries are recorded up to one more than the commits ever written:
\* a longer output repeats what is recorded
printCommit ==
    /\ LogRunning
    /\ last' = [last EXCEPT
                   !.printed = IF Len(@) <= nCommits THEN Append(@, last.curr) ELSE @,
                   !.odd = ~@,
                   !.curr = trimOf(Field(commits[last.curr].info, "2", ""))]
    /\ UNCHANGED <<wt, staging, commits, HEAD, nCommits, since, faulty>>

Next ==
    \/ WriteFile \/ DeleteFile \/ Exit
    \/ gitInit \/ gitAdd \/ gitAddFiles(OneName) \/ gitStatus
    \/ gitCommit \/ gitRevert
    \/ gitLog \/ printCommit

Spec == Init /\ [][Next]_vars

(***************************************************************************)
(* add <files...> with several names in one call.                          *)
(***************************************************************************)
\* names given to one add
MaxFiles == 2

NameLists == UNION {[1..n -> NamedPaths] : n \in 1..MaxFiles}

NextNaming ==
    \/ WriteFile \/ DeleteFile \/ Exit
    \/ gitInit \/ gitAddFiles(NameLists) \/ gitCommit

Naming == Init /\ [][NextNaming]_vars

(***************************************************************************)
(* The history chain: longer histories over one working tree that is not   *)
(* edited.  A pass of the log loop that can be made is made (the process   *)
(* keeps running).                                                         *)
(***************************************************************************)
\* commit directories written in one behaviour on the chain
MaxChain == 3

InitHist ==
    /\ Init
    /\ wt = Overlay(FixedFiles, [p \in {"a.txt"} |-> <<1>>])

NextHist ==
    \/ Exit \/ gitInit \/ gitAdd
    \/ gitCommitUpTo(MaxChain) \/ gitRevertUpTo(MaxChain)
    \/ gitLog \/ printCommit

History == InitHist /\ [][NextHist]_vars /\ WF_vars(printCommit)

(***************************************************************************)
(* A damaged store: between two commands a commit directory is deleted     *)
(* from .git/commits (nothing in the program deletes one).                 *)
(***************************************************************************)
RemoveCommit ==
    /\ Idle
    /\ \E c \in DOMAIN commits : commits' = [d \in DOMAIN commits \ {c} |-> commits[d]]
    /\ UNCHANGED <<wt, staging, HEAD, last, nCommits, since, faulty>>

NextDamaged == NextHist \/ RemoveCommit

Damaged == InitHist /\ [][NextDamaged]_vars /\ WF_vars(printCommit)

(***************************************************************************)
(* A failing filesystem: from some moment on it may refuse what            *)
(* createCommit asks of it.                                                *)
(***************************************************************************)
DiskFails ==
    /\ Idle
    /\ ~faulty
    /\ faulty' = TRUE
    /\ UNCHANGED <<wt, staging, commits, HEAD, last, nCommits, since>>

NextFaulty == NextHist \/ DiskFails

Faulty == InitHist /\ [][NextFaulty]_vars

(***************************************************************************)
(* Vocabulary of the properties.                                           *)
(***************************************************************************)
\* the head as a caller sees it: the null sentinel when history is empty
HeadOf(h) == IF h = NoFile THEN "NULL" ELSE h

HeadValue == HeadOf(HEAD)

\* the snapshot of the head, empty when history is empty
HeadSnapshot ==
    IF HeadValue \in DOMAIN commits THEN commits[HeadValue].data ELSE EmptyTree

\* the parent recorded in a commit's metadata
ParentOf(c) == Field(commits[c].info, "2", "")

\* the reserved paths of the data model: the metadata directory .git, the
\* editor directory .vscode and the executable
Reserved(p) ==
    \/ p \in {".git", ".vscode", "mygit", "mygit.exe"}
    \/ StartsWith(p, ".git/")
    \/ StartsWith(p, ".vscode/")

WorkingTree == {p \in DOMAIN wt : ~Reserved(p)}

\* byte-identical files at path p of two trees
Identical(t, u, p) == p \in DOMAIN t /\ p \in DOMAIN u /\ t[p] = u[p]

\* the filesystem the last command started from, its head and the commit a
\* reference named there
was == last.before

HeadWas == HeadOf(was.HEAD)

TargetWas == IF last.ref = "HEAD" THEN HeadWas ELSE last.ref

\* the last command was a commit or a revert that returned true: last.id is
\* the commit it created
Appended == last.op \in {"commit", "revert"} /\ last.ok

\* the last command left the head, the commit store and staging as they were
Untouched == HEAD = was.HEAD /\ commits = was.commits /\ staging = was.staging

(***************************************************************************)
(* C1: a successful revert(X) creates a commit whose snapshot has exactly  *)
(* the paths of X's snapshot with the same bytes at each, whatever the     *)
(* head's snapshot and the staging area hold.                              *)
(***************************************************************************)
C1_RevertCopiesTarget ==
    (last.op = "revert" /\ last.ok)
        => commits[last.id].data = was.commits[TargetWas].data

(***************************************************************************)
(* C2: when commit succeeds, staging is empty on return, the head holds    *)
(* the new commit's identifier and the new commit's recorded parent is the *)
(* head from before the call (the null sentinel on an empty history).      *)
(***************************************************************************)
C2_CommitPost ==
    (last.op = "commit" /\ last.ok)
        => /\ DOMAIN was.staging # {}
           /\ DOMAIN staging = {}
           /\ HEAD = last.id
           /\ last.id \in DOMAIN commits
           /\ Field(commits[last.id].info, "1", "") = last.id
           /\ Field(commits[last.id].info, "2", "") = HeadWas

\* a commit on a non-empty history
C2_Witness ==
    /\ last.op = "commit" /\ last.ok
    /\ HEAD = last.id
    /\ DOMAIN staging = {}
    /\ HeadWas \in DOMAIN was.commits \ {last.id}
    /\ ParentOf(HEAD) = HeadWas

(***************************************************************************)
(* C3: commit with no regular file in staging returns failure and leaves   *)
(* the head, the commit store and the staging area as they were.           *)
(***************************************************************************)
C3_EmptyCommitNoOp ==
    (last.op = "commit" /\ DOMAIN was.staging = {})
        => ~last.ok /\ ~last.exited /\ Untouched

\* a refused commit on a non-empty history
C3_Witness ==
    /\ last.op = "commit" /\ ~last.ok /\ ~last.exited
    /\ DOMAIN was.staging = {}
    /\ HeadValue \in DOMAIN commits

(***************************************************************************)
(* C4: inheritance.  A new commit with a non-null parent holds, at every   *)
(* path of the parent's snapshot that is not in staging at commit time,    *)
(* the parent's bytes.                                                     *)
(***************************************************************************)
C4_Inheritance ==
    (Appended /\ HeadWas \in DOMAIN was.commits)
        => \A p \in DOMAIN was.commits[HeadWas].data \ DOMAIN was.staging :
              Identical(commits[last.id].data, was.commits[HeadWas].data, p)

\* a commit that inherited one path and took another from staging
C4_Witness ==
    /\ last.op = "commit" /\ last.ok
    /\ HeadWas \in DOMAIN was.commits \ {last.id}
    /\ DOMAIN was.commits[HeadWas].data \ DOMAIN was.staging # {}
    /\ DOMAIN was.staging \ DOMAIN was.commits[HeadWas].data # {}

(***************************************************************************)
(* C5: overlay.  A new commit holds, at every path staged at commit time,  *)
(* the staged bytes, also where the parent has another file at that path.  *)
(***************************************************************************)
C5_Overlay ==
    Appended
        => \A p \in DOMAIN was.staging :
              Identical(commits[last.id].data, was.staging, p)

\* a commit with a staged file whose bytes differ from the parent's
C5_Witness ==
    /\ last.op = "commit" /\ last.ok
    /\ HeadWas \in DOMAIN was.commits \ {last.id}
    /\ \E p \in DOMAIN was.staging \cap DOMAIN was.commits[HeadWas].data :
          was.staging[p] # was.commits[HeadWas].data[p]

(***************************************************************************)
(* C6: status reports staged = the files in staging, modified = the        *)
(* non-reserved working-tree paths in the head snapshot, not staged, whose *)
(* bytes differ from the snapshot's, untracked = the non-reserved          *)
(* working-tree paths in neither staging nor the head snapshot.            *)
(***************************************************************************)
C6_StatusSets ==
    last.op = "status" =>
        /\ last.out.staged = DOMAIN staging
        /\ last.out.modified =
              {p \in WorkingTree : /\ p \in DOMAIN HeadSnapshot
                                   /\ p \notin DOMAIN staging
                                   /\ wt[p] # HeadSnapshot[p]}
        /\ last.out.untracked =
              {p \in WorkingTree : p \notin DOMAIN HeadSnapshot /\ p \notin DOMAIN staging}

(***************************************************************************)
(* C7: the staged, modified and untracked sets of status are pairwise      *)
(* disjoint.                                                               *)
(***************************************************************************)
C7_StatusDisjoint ==
    last.op = "status" =>
        /\ last.out.staged \cap last.out.modified = {}
        /\ last.out.staged \cap last.out.untracked = {}
        /\ last.out.modified \cap last.out.untracked = {}

\* a status with an untracked path and a staged path that is in the head
\* snapshot with other bytes than the working tree's (only its being staged
\* keeps it out of modified)
C7_Witness ==
    /\ last.op = "status"
    /\ last.out.untracked # {}
    /\ \E p \in last.out.staged :
          p \in DOMAIN wt /\ p \in DOMAIN HeadSnapshot /\ wt[p] # HeadSnapshot[p]

(***************************************************************************)
(* C8: after add-all, every non-reserved working-tree file with the bytes  *)
(* of the head snapshot's file at its path is absent from staging and      *)
(* not reported as modified by the next status.                            *)
(***************************************************************************)
C8_AddAllPrunes ==
    last.op = "add" =>
        \A p \in WorkingTree :
            Identical(wt, HeadSnapshot, p) =>
                p \notin DOMAIN staging /\ p \notin statusModified

\* an add-all that found a file unchanged since the head and staged another
C8_Witness ==
    /\ last.op = "add"
    /\ \E p \in WorkingTree : Identical(wt, HeadSnapshot, p) /\ p \notin DOMAIN staging
    /\ DOMAIN staging # {}

(***************************************************************************)
(* C9: add-named treats each named file as add-all does: one that differs  *)
(* from or is missing in the head snapshot ends up staged with its         *)
(* working-tree bytes, one identical to the head snapshot ends up absent   *)
(* from staging, a stale staged copy included.                             *)
(***************************************************************************)
C9_AddNamedPerFile ==
    last.op = "addfiles" =>
        \A i \in 1..Len(last.files) :
            LET f == last.files[i]
            IN  f \in WorkingTree =>
                    IF Identical(wt, HeadSnapshot, f)
                    THEN f \notin DOMAIN staging
                    ELSE Identical(staging, wt, f)

(***************************************************************************)
(* C10: revert of a reference that names no existing commit returns        *)
(* failure and leaves the head, the commit store and staging unchanged.    *)
(***************************************************************************)
C10_RevertUnresolved ==
    (last.op = "revert" /\ TargetWas \notin DOMAIN was.commits)
        => ~last.ok /\ ~last.exited /\ Untouched

\* a refused revert of an unknown identifier, with commits and staged files
C10_Witness ==
    /\ last.op = "revert" /\ ~last.ok /\ ~last.exited
    /\ last.ref \in CommitIds \ DOMAIN commits
    /\ HeadValue \in DOMAIN commits
    /\ DOMAIN staging # {}

(***************************************************************************)
(* Vocabulary of the history chain.                                        *)
(***************************************************************************)
\* the identifiers met by following parent links from c, for n links at most
RECURSIVE Walk(_, _)
Walk(c, n) ==
    IF n = 0 \/ c \notin DOMAIN commits THEN <<>>
    ELSE <<c>> \o Walk(ParentOf(c), n - 1)

\* no identifier occurs twice in the sequence
NoRepeat(ids) == \A i, j \in 1..Len(ids) : ids[i] = ids[j] => i = j

(***************************************************************************)
(* C11: commits are immutable.  No operation changes the snapshot or the   *)
(* metadata record (identifier, parent, message, timestamp) of a commit    *)
(* that exists.                                                            *)
(***************************************************************************)
C11_CommitsImmutable ==
    [][\A c \in DOMAIN commits : c \in DOMAIN commits' /\ commits'[c] = commits[c]]_vars

(***************************************************************************)
(* C12: the history chain is well formed in every reachable state: the     *)
(* head is the null sentinel or an existing commit, every non-null parent  *)
(* recorded in a commit is an existing commit, and following parent links  *)
(* from the head never comes back to a commit.                             *)
(***************************************************************************)
C12_ChainWellFormed ==
    /\ HeadValue = "NULL" \/ HeadValue \in DOMAIN commits
    /\ \A c \in DOMAIN commits : ParentOf(c) = "NULL" \/ ParentOf(c) \in DOMAIN commits
    /\ NoRepeat(Walk(HeadValue, Cardinality(DOMAIN commits) + 1))

\* the sequence a is the beginning of the sequence b
IsPrefix(a, b) == Len(a) <= Len(b) /\ \A i \in 1..Len(a) : a[i] = b[i]

\* the walk of log has ended
LogEnded == last.op = "log" /\ ~LogRunning

(***************************************************************************)
(* C13: after init and k successful commits and reverts (no further init)  *)
(* log yields exactly k entries: the commits appended since init, newest   *)
(* first, beginning with the head, each entry's parent being the entry     *)
(* that follows it and the last entry's parent being the null sentinel.    *)
(***************************************************************************)
C13_LogYieldsChain ==
    (last.op = "log" /\ since.inited) =>
        /\ IsPrefix(last.printed, since.ids)
        /\ LogEnded =>
              /\ last.printed = since.ids
              /\ \A i \in 1..Len(last.printed) :
                    /\ i = 1 => last.printed[i] = HeadValue
                    /\ i < Len(last.printed) => ParentOf(last.printed[i]) = last.printed[i + 1]
                    /\ i = Len(last.printed) => ParentOf(last.printed[i]) = "NULL"

(***************************************************************************)
(* C20: log terminates.  In every state that init, add, commit and revert  *)
(* can reach, the walk from the head along the parent links comes to the   *)
(* null sentinel, so a log that has started ends.                          *)
(***************************************************************************)
C20_LogTerminates == (last.op = "log") ~> LogEnded

\* the last command told its caller that something is wrong: an error
\* return, exit(1) or a warning
Reported == ~last.ok \/ last.exited \/ last.warned # {}

(***************************************************************************)
(* C14: when the walk of log comes to a non-null identifier (the head or   *)
(* a parent link) that names no existing commit, log reports it; it does   *)
(* not end as if it had come to the null sentinel.                         *)
(***************************************************************************)
C14_LogReportsCorruption ==
    (LogEnded /\ last.curr \notin {"", "NULL"}) => Reported

\* the last command left the whole filesystem as it found it
ReadOnly ==
    /\ wt = was.wt
    /\ staging = was.staging
    /\ commits = was.commits
    /\ HEAD = was.HEAD

(***************************************************************************)
(* C16: status and log are read-only: either leaves the head, the staging  *)
(* area, the commit store and the working tree unchanged.                  *)
(***************************************************************************)
C16_StatusLogReadOnly == last.op \in {"status", "log"} => ReadOnly

\* a log that has walked two commits past staged files
C16_Witness ==
    /\ LogEnded
    /\ Len(last.printed) = 2
    /\ DOMAIN staging # {}
    /\ ReadOnly

(***************************************************************************)
(* C17: revert, successful or not, writes the commit store and the head    *)
(* only: the working tree and the staging area are as before it.           *)
(***************************************************************************)
C17_RevertFrame ==
    last.op = "revert" => wt = was.wt /\ staging = was.staging

\* a successful revert that leaves staged files in place
C17_Witness ==
    /\ last.op = "revert" /\ last.ok
    /\ HEAD = last.id /\ HEAD # was.HEAD
    /\ DOMAIN staging # {}
    /\ staging = was.staging

(***************************************************************************)
(* C19: right after add-all no file of the staging area has the bytes of   *)
(* the head snapshot's file at the same path.                              *)
(***************************************************************************)
C19_NoStagedCopyOfHead ==
    last.op = "add" => \A p \in DOMAIN staging : ~Identical(staging, HeadSnapshot, p)

\* a named path that exists as a regular file
IsGoodName(name) == IsRegularFile(name)

(***************************************************************************)
(* C18: in add-named a named path that does not exist or is not a regular  *)
(* file is skipped with a warning and changes nothing in staging at that   *)
(* path, and the other paths of the list are processed as if it had not    *)
(* been given, wherever it stands in the list.                             *)
(***************************************************************************)
C18_BadNameSkipped ==
    last.op = "addfiles" =>
        /\ \A i \in 1..Len(last.files) :
              ~IsGoodName(last.files[i]) =>
                  /\ last.files[i] \in last.warned
                  /\ last.files[i] \in DOMAIN staging <=> last.files[i] \in DOMAIN was.staging
                  /\ last.files[i] \in DOMAIN staging =>
                        staging[last.files[i]] = was.staging[last.files[i]]
        /\ staging = gitAddNamed(was.staging, SelectSeq(last.files, IsGoodName),
                                 committedData(getHEAD))

\* the metadata record of commit c holds its four lines: the identifier c,
\* a parent, a message and a timestamp
RecordComplete(c) ==
    /\ infoExists(c)
    /\ Len(commits[c].info) = 4
    /\ Field(commits[c].info, "1", "") = c
    /\ Field(commits[c].info, "2", "") # ""
    /\ Field(commits[c].info, "4", "") # ""

(***************************************************************************)
(* C15: when a step of materializing the snapshot fails during commit or   *)
(* revert (creating a directory, copying an inherited or a staged file,    *)
(* writing the metadata record) the operation aborts with the head and     *)
(* the staging area unchanged, so the head always is the null sentinel or  *)
(* a commit whose metadata record was written completely.                  *)
(***************************************************************************)
C15_FailureLeavesHead ==
    /\ (last.op \in {"commit", "revert"} /\ last.fault # "")
          => ~last.ok /\ HEAD = was.HEAD /\ staging = was.staging
    /\ HeadValue = "NULL" \/ RecordComplete(HeadValue)

(***************************************************************************)
(* C21: after add-all directly followed by a successful commit, the        *)
(* working tree not edited in between, the new head's snapshot holds every *)
(* non-reserved working-tree file with the same bytes, and a status run    *)
(* next reports empty staged, modified and untracked sets.                 *)
(***************************************************************************)
C21_AddAllThenCommit ==
    (last.op = "commit" /\ last.ok /\ last.afterAdd) =>
        /\ \A p \in WorkingTree : Identical(HeadSnapshot, wt, p)
        /\ statusStaged = {}
        /\ statusModified = {}
        /\ statusUntracked = {}

\* the snapshot of the head the last command started from
HeadSnapshotWas ==
    IF HeadWas \in DOMAIN was.commits THEN was.commits[HeadWas].data ELSE EmptyTree

(***************************************************************************)
(* C22: snapshot path sets only grow along the chain.  A commit created by *)
(* commit or revert with a non-null parent holds every path of the         *)
(* parent's snapshot, so no commit or revert takes a path out of the       *)
(* snapshot of the head (a file deleted from the working tree stays in the *)
(* later snapshots), and status never reports a path of the head snapshot  *)
(* that is gone from the working tree.                                     *)
(***************************************************************************)
C22_PathsOnlyGrow ==
    /\ (Appended /\ HeadWas \in DOMAIN was.commits)
          => DOMAIN was.commits[HeadWas].data \subseteq DOMAIN commits[last.id].data
    /\ last.op \in {"commit", "revert"}
          => DOMAIN HeadSnapshotWas \subseteq DOMAIN HeadSnapshot
    /\ last.op = "status"
          => \A p \in DOMAIN HeadSnapshot \ DOMAIN wt :
                p \notin last.out.staged \cup last.out.modified \cup last.out.untracked

(***************************************************************************)
(* C23: init always sets the head to the empty-history sentinel and        *)
(* deletes nothing: every commit and every staged file (and the working    *)
(* tree) is as before, whatever the repository held.  A log with no commit *)
(* created since the init ends at once and yields no entry, and the first  *)
(* commit created after the init (by commit or revert) records the null    *)
(* sentinel as its parent.                                                 *)
(***************************************************************************)
C23_InitResetsHead ==
    /\ last.op = "init"
          => /\ HEAD = "NULL"
             /\ commits = was.commits
             /\ staging = was.staging
             /\ wt = was.wt
    /\ (last.op = "log" /\ since.inited /\ since.ids = <<>>)
          => last.printed = <<>> /\ LogEnded
    /\ (Appended /\ since.inited /\ since.ids = <<last.id>>)
          => ParentOf(last.id) = "NULL"

\* init has run on a repository with a head commit and a staged file
C23_Witness ==
    /\ last.op = "init"
    /\ was.HEAD \in DOMAIN commits
    /\ DOMAIN staging # {}
    /\ HEAD = "NULL"
====
